---- MODULE Spec2Model ----
(***************************************************************************)
(* Model of main.py: the Tunisia Flights API.  One inbound request         *)
(* GET /flights/djerba is handled by get_djerba_flights, which calls       *)
(* get_dates once and then performs six sequential upstream fetches        *)
(* (three window dates x two movements), folding successes into            *)
(* flights_by_date and failures into api_errors.                           *)
(*                                                                         *)
(* A Python string that the code formats, concatenates or strips is a       *)
(* sequence of one-character strings, so that these operations are         *)
(* computed; a string the code only copies is a TLA+ string.  A JSON       *)
(* value is a record [t, v] with t its JSON type.  Python lists are heap   *)
(* objects: `lists` maps a list identity to its contents and a DateFlights *)
(* holds the identities of its two lists.                                  *)
(***************************************************************************)
EXTENDS Integers, Sequences, FiniteSets, TLC

VARIABLES
    now,              \* the value datetime.now() returns, as <<year, month, day>>
    pc,               \* position of the handler coroutine
    dates,            \* local `dates` (9 strings)
    i,                \* loop index of `for i in range(0, len(dates), 3)` (0-based)
    j,                \* index into `movements` (1-based)
    current_date,     \* local `current_date`
    flights_by_date,  \* local dict: date-string -> DateFlights (two list identities)
    lists,            \* heap of Python lists: identity -> sequence of FlightDetails
    api_errors,       \* local `api_errors`
    sent,             \* upstream requests issued so far (query parameters of each URL)
    outcomes,         \* what the upstream did with each request of `sent`
    datesCalls,       \* number of calls of get_dates
    status,           \* HTTP status of the response (0: none yet)
    respBody          \* body of the response

vars == <<now, pc, dates, i, j, current_date, flights_by_date, lists,
          api_errors, sent, outcomes, datesCalls, status, respBody>>

(***************************************************************************)
(* Bounds                                                                  *)
(***************************************************************************)
MaxRecords == 2      \* longest upstream list body

(***************************************************************************)
(* Strings                                                                 *)
(***************************************************************************)
Digits == <<"0", "1", "2", "3", "4", "5", "6", "7", "8", "9">>

Digit(n) == Digits[n + 1]

IsDigit(c) == c \in {"0", "1", "2", "3", "4", "5", "6", "7", "8", "9"}

DigitVal(c) ==
    CASE c = "0" -> 0 [] c = "1" -> 1 [] c = "2" -> 2 [] c = "3" -> 3 [] c = "4" -> 4
      [] c = "5" -> 5 [] c = "6" -> 6 [] c = "7" -> 7 [] c = "8" -> 8 [] c = "9" -> 9
      [] OTHER -> 0

\* strftime("%d"), strftime("%m"): two digits, zero padded
Pad2(n) == <<Digit((n \div 10) % 10), Digit(n % 10)>>

\* strftime("%Y"): the decimal digits of the year
RECURSIVE Decimal(_)
Decimal(n) == IF n < 10 THEN <<Digit(n)>> ELSE Append(Decimal(n \div 10), Digit(n % 10))

Whitespace == {" ", "\t", "\n"}

\* str.strip(): remove leading and trailing whitespace
RECURSIVE LStrip(_)
LStrip(s) == IF s # <<>> /\ Head(s) \in Whitespace THEN LStrip(Tail(s)) ELSE s

RECURSIVE RStrip(_)
RStrip(s) ==
    IF s # <<>> /\ s[Len(s)] \in Whitespace THEN RStrip(SubSeq(s, 1, Len(s) - 1)) ELSE s

\* variant: str.lstrip()
StripLeftOnly(s) == LStrip(s)

Strip(s) == RStrip(LStrip(s))

(***************************************************************************)
(* datetime arithmetic: datetime +/- timedelta(days=1) goes through the    *)
(* proleptic Gregorian ordinal of the date.                                *)
(***************************************************************************)
DAYS_IN_MONTH == <<31, 28, 31, 30, 31, 30, 31, 31, 30, 31, 30, 31>>

DAYS_BEFORE_MONTH == <<0, 31, 59, 90, 120, 151, 181, 212, 243, 273, 304, 334>>

\* variant: every fourth year
is_leap_julian(y) == y % 4 = 0

is_leap(y) == y % 4 = 0 /\ (y % 100 # 0 \/ y % 400 = 0)

days_before_year(y) ==
    LET y1 == y - 1 IN y1 * 365 + (y1 \div 4) - (y1 \div 100) + (y1 \div 400)

days_before_month(y, m) ==
    DAYS_BEFORE_MONTH[m] + (IF m > 2 /\ is_leap(y) THEN 1 ELSE 0)

ymd2ord(d) == days_before_year(d[1]) + days_before_month(d[1], d[2]) + d[3]

ord2ymd(ord) ==
    LET n0   == ord - 1
        n400 == n0 \div 146097
        r400 == n0 % 146097
        n100 == r400 \div 36524
        r100 == r400 % 36524
        n4   == r100 \div 1461
        r4   == r100 % 1461
        n1   == r4 \div 365
        n    == r4 % 365
        year == n400 * 400 + 1 + n100 * 100 + n4 * 4 + n1
        leapyear == n1 = 3 /\ (n4 # 24 \/ n100 = 3)
        month0 == (n + 50) \div 32
        prec0  == DAYS_BEFORE_MONTH[month0] + (IF month0 > 2 /\ leapyear THEN 1 ELSE 0)
        month  == IF prec0 > n THEN month0 - 1 ELSE month0
        prec   == IF prec0 > n
                    THEN prec0 - (DAYS_IN_MONTH[month]
                                  + (IF month = 2 /\ leapyear THEN 1 ELSE 0))
                    ELSE prec0
    IN  IF n1 = 4 \/ n100 = 4
          THEN <<year - 1, 12, 31>>
          ELSE <<year, month, n - prec + 1>>

\* today + timedelta(days=k)
AddDays(d, k) == ord2ymd(ymd2ord(d) + k)

\* the three strftime calls on one datetime
Fmt(d) == <<Pad2(d[3]), Pad2(d[2]), Decimal(d[1])>>

get_dates(today) == Fmt(AddDays(today, -1)) \o Fmt(today) \o Fmt(AddDays(today, 1))

(***************************************************************************)
(* Inputs: reference instants and upstream behaviour                       *)
(***************************************************************************)
\* the Gregorian calendar, stated by its rules
CalLeap(y) == (y % 4 = 0 /\ y % 100 # 0) \/ y % 400 = 0

CalDaysIn(y, m) ==
    IF m = 2 THEN (IF CalLeap(y) THEN 29 ELSE 28)
    ELSE IF m \in {4, 6, 9, 11} THEN 30 ELSE 31

CalNext(d) ==
    IF d[3] < CalDaysIn(d[1], d[2]) THEN <<d[1], d[2], d[3] + 1>>
    ELSE IF d[2] < 12 THEN <<d[1], d[2] + 1, 1>>
    ELSE <<d[1] + 1, 1, 1>>

RefYears == {1999, 2000, 2023, 2024, 2100}

\* every day of the reference years
AllDays == UNION {{<<y, m, d>> : d \in 1..CalDaysIn(y, m)} : y \in RefYears, m \in 1..12}

\* instants at which the request is handled (month, year and leap rollovers)
RefDays == {<<2023, 12, 31>>}

Str(s) == [t |-> "str", v |-> s]

Null == [t |-> "null", v |-> ""]

Num(s) == [t |-> "num", v |-> s]

CompanyCore(x) ==
    IF x % 2 = 1 THEN <<"T", "U", " ", "A", "i", "r">> ELSE <<"B", "J">>

RawCompany(x) ==
    CASE x % 3 = 1 -> <<" ">> \o CompanyCore(x) \o <<" ">>
      [] x % 3 = 2 -> CompanyCore(x)
      [] OTHER     -> <<"\t", " ">> \o CompanyCore(x) \o <<"\n">>

\* the upstream's flight number names the query it answers and the record's rank
FlightNo(q, x) == <<q.frmmvtCod>> \o q.frmday \o q.frmmonth \o <<Digit(x % 10)>>

CommentOf(x) == IF x % 2 = 1 THEN Null ELSE Str("RETARD")

GoodRecord(q, x) ==
    [direction   |-> Str("TUN"),
     heure       |-> Str("14:30"),
     compagnie   |-> Str(RawCompany(x)),
     numVol      |-> Str(FlightNo(q, x)),
     commentaire |-> CommentOf(x)]

BadKinds == {"missing_field", "null_company", "number_company", "null_destination"}

BadRecord(q, x, b) ==
    CASE b = "missing_field" ->
            [direction |-> Str("TUN"),
             heure     |-> Str("14:30"),
             compagnie |-> Str(RawCompany(x)),
             numVol    |-> Str(FlightNo(q, x))]
      [] b = "null_company" ->
            [GoodRecord(q, x) EXCEPT !.compagnie = Null]
      [] b = "number_company" ->
            [GoodRecord(q, x) EXCEPT !.compagnie = Num(<<"7">>)]
      [] OTHER ->
            [GoodRecord(q, x) EXCEPT !.direction = Null]

GoodList(q, n) == [t |-> "list", v |-> [x \in 1..n |-> GoodRecord(q, x)]]

BadList(q, n, k, b) ==
    [t |-> "list",
     v |-> [x \in 1..n |-> IF x = k THEN BadRecord(q, x, b) ELSE GoodRecord(q, x)]]

\* what the upstream can answer with status 200 and a JSON body.  `kind` is
\* the sort of outcome the answer is ("ok", "nonlist", "unexpected": its
\* processing must fail; also "network" and "http" for the answers that are
\* no body) and n the number of records of a well-formed list
GoodReplies(q) == {[kind |-> "ok", n |-> n, body |-> GoodList(q, n)] : n \in 0..MaxRecords}

\* a list of MaxRecords records one of which, at any rank, is malformed
BadReplies(q) ==
    {[kind |-> "unexpected", n |-> 0, body |-> BadList(q, MaxRecords, k, b)] :
        k \in 1..MaxRecords, b \in BadKinds}

\* valid JSON bodies that are not arrays
NonListReplies ==
    {[kind |-> "nonlist", n |-> 0, body |-> b] : b \in {[t |-> "obj", v |-> ""], Null}}

JSONReplies(q) == GoodReplies(q) \cup BadReplies(q) \cup NonListReplies

(***************************************************************************)
(* FlightDetails, DateFlights, MovementType                                *)
(***************************************************************************)
ItemFields == {"direction", "heure", "compagnie", "numVol", "commentaire"}

\* building FlightDetails(...) from one item raises: KeyError on a missing
\* key, AttributeError on .strip() of a non-string, ValidationError on a
\* null in a str field (the upstream bodies hold strings and nulls there, and a
\* number only as compagnie)
Raises(item) ==
    \/ \E f \in ItemFields : f \notin DOMAIN item
    \/ item.compagnie.t # "str"
    \/ item.direction.t # "str"
    \/ item.heure.t # "str"
    \/ item.numVol.t # "str"
    \/ item.commentaire.t \notin {"str", "null"}

FlightDetails(item) ==
    [destination |-> item.direction.v,
     time        |-> item.heure.v,
     company     |-> Strip(item.compagnie.v),
     fnumber     |-> item.numVol.v,
     comment     |-> item.commentaire]

AnyRaises(data) == \E x \in 1..Len(data) : Raises(data[x])

\* number of leading items that can be converted
RECURSIVE GoodPrefix(_)
GoodPrefix(data) ==
    IF data = <<>> \/ Raises(Head(data)) THEN 0 ELSE 1 + GoodPrefix(Tail(data))

\* variant: a loop that appends record by record until one raises
ExtendedEach(old, data) ==
    old \o [x \in 1..GoodPrefix(data) |-> FlightDetails(data[x])]

\* the list comprehension followed by list.extend: the comprehension is
\* evaluated completely before extend is called
Extended(old, data) ==
    IF AnyRaises(data) THEN old
    ELSE old \o [x \in 1..Len(data) |-> FlightDetails(data[x])]

\* variant: one pair of lists shared by every DateFlights
DateFlightsShared(n) == [departures |-> 1, arrivals |-> 2]

\* DateFlights(): default_factory=list gives two new lists; n lists exist
DateFlights(n) == [departures |-> n + 1, arrivals |-> n + 2]

\* variant: departures listed twice
MovementsRepeated == <<"D", "D">>

\* [MovementType.departures, MovementType.arrivals], each member named by its
\* value
Movements == <<"D", "A">>

\* variant: the two names exchanged
MovementNameSwapped(m) == IF m = "D" THEN "arrivals" ELSE "departures"

MovementName(m) == IF m = "D" THEN "departures" ELSE "arrivals"

\* the list the records of a movement are appended to
Bucket(df, m) == IF m = "D" THEN df.departures ELSE df.arrivals

\* variant: year first
DateKeyISO(day, month, year) == year \o <<"-">> \o month \o <<"-">> \o day

DateKey(day, month, year) == day \o <<"-">> \o month \o <<"-">> \o year

\* variant: null passes the test
IsListOrNull(body) == body.t \in {"list", "null"}

IsList(body) == body.t = "list"

\* variant: "no flights found and there are errors"
ShouldFailNoFlights(fbd, ls, errs) ==
    /\ \A k \in DOMAIN fbd : ls[fbd[k].departures] = <<>> /\ ls[fbd[k].arrivals] = <<>>
    /\ errs # <<>>

\* line 129: `not flights_by_date and api_errors` (ls: the heap of lists)
ShouldFail(fbd, ls, errs) == DOMAIN fbd = {} /\ errs # <<>>

\* the response_model serialisation of Dict[str, DateFlights]
Serialize(fbd, ls) ==
    [k \in DOMAIN fbd |->
        [departures |-> ls[fbd[k].departures], arrivals |-> ls[fbd[k].arrivals]]]

\* the dict appended to api_errors; of the f-string messages only the
\* constant prefix is kept
FetchError(m, msg) ==
    [date |-> current_date, movement |-> MovementName(m), error |-> msg]

(***************************************************************************)
(* The handler: a coroutine whose steps are the code between two awaits    *)
(***************************************************************************)
\* lines 67-77: the query of dates[ii .. ii+2] (0-based ii) and movements[jj]
Url(ds, ii, jj) ==
    [frmmvtCod   |-> Movements[jj],
     frmaeropVil |-> <<"-", "1">>,
     frmnumVol   |-> <<>>,
     frmairport  |-> "djerba",
     frmday      |-> ds[ii + 1],
     frmmonth    |-> ds[ii + 2],
     frmacty     |-> ds[ii + 3],
     frmhour     |-> <<"0">>]

\* the request the coroutine is waiting on
CurrentUrl == Url(dates, i, j)

Init ==
    /\ now \in RefDays
    /\ pc = "start"
    /\ dates = <<>>
    /\ i = 0
    /\ j = 1
    /\ current_date = <<>>
    /\ flights_by_date = <<>>
    /\ lists = <<>>
    /\ api_errors = <<>>
    /\ sent = <<>>
    /\ outcomes = <<>>
    /\ datesCalls = 0
    /\ status = 0
    /\ respBody = <<>>

\* lines 58-64 for dates[ii .. ii+2], then lines 66-79 up to the await of the
\* first movement's client.get; ls is the heap as the previous step left it
BeginDate(ds, ii, ls) ==
    LET key == DateKey(ds[ii + 1], ds[ii + 2], ds[ii + 3])
    IN  /\ i' = ii
        /\ j' = 1
        /\ current_date' = key
        /\ IF key \notin DOMAIN flights_by_date
             THEN /\ flights_by_date' = flights_by_date @@ (key :> DateFlights(Len(ls)))
                  /\ lists' = ls \o <<<<>>, <<>>>>
             ELSE /\ flights_by_date' = flights_by_date
                  /\ lists' = ls
        /\ sent' = Append(sent, Url(ds, ii, 1))
        /\ pc' = "await"
        /\ UNCHANGED <<status, respBody>>

\* lines 128-135: after the loops
Respond(ls, errs) ==
    /\ IF ShouldFail(flights_by_date, ls, errs)
         THEN /\ status' = 500
              /\ respBody' = [message |-> "Unable to fetch flights", errors |-> errs]
         ELSE /\ status' = 200
              /\ respBody' = Serialize(flights_by_date, ls)
    /\ lists' = ls
    /\ pc' = "done"
    /\ UNCHANGED <<i, j, current_date, flights_by_date, sent>>

\* what follows the processing of one answer: the next movement of the same
\* date, else the next date, else the end of both loops
Continue(ls, errs) ==
    IF j < Len(Movements)
      THEN /\ j' = j + 1
           /\ lists' = ls
           /\ sent' = Append(sent, Url(dates, i, j + 1))
           /\ UNCHANGED <<pc, i, current_date, flights_by_date, status, respBody>>
      ELSE IF i + 3 < Len(dates)
             THEN BeginDate(dates, i + 3, ls)
             ELSE Respond(ls, errs)

\* lines 51-79: the handler is entered and runs up to its first await
Enter ==
    /\ pc = "start"
    /\ dates' = get_dates(now)
    /\ datesCalls' = datesCalls + 1
    /\ api_errors' = <<>>
    /\ BeginDate(dates', 0, <<>>)
    /\ UNCHANGED <<now, outcomes>>

\* an except clause, or the isinstance branch: record the error, go on
Failed(kind, msg) ==
    LET errs == Append(api_errors, FetchError(Movements[j], msg))
    IN  /\ api_errors' = errs
        /\ outcomes' = Append(outcomes, [kind |-> kind, n |-> 0])
        /\ Continue(lists, errs)
        /\ UNCHANGED <<now, dates, datesCalls>>

\* lines 79, 114-119: client.get raises httpx.RequestError (connect, timeout, DNS)
FetchNetworkError ==
    /\ pc = "await"
    /\ Failed("network", "Network error")

\* lines 80, 107-112: raise_for_status raises httpx.HTTPStatusError (the
\* status code and body text go into the message only)
FetchHTTPError ==
    /\ pc = "await"
    /\ Failed("http", "API error")

\* lines 81, 121-126: response.json() raises on a body that is not JSON
FetchNotJSON ==
    /\ pc = "await"
    /\ Failed("unexpected", "Unexpected error")

\* lines 83-89: the body is JSON but not a list
FetchNonList ==
    /\ pc = "await"
    /\ \E reply \in JSONReplies(CurrentUrl) :
         /\ ~IsList(reply.body)
         /\ Failed(reply.kind, "Unexpected response format")

\* lines 83, 91-105, 121-126: the body passed the isinstance check
FetchList ==
    /\ pc = "await"
    /\ \E reply \in JSONReplies(CurrentUrl) :
         /\ IsList(reply.body)
         /\ LET data   == reply.body.v
                target == Bucket(flights_by_date[current_date], Movements[j])
                raised == reply.body.t # "list" \/ AnyRaises(data)
                errs   == IF raised
                            THEN Append(api_errors,
                                        FetchError(Movements[j], "Unexpected error"))
                            ELSE api_errors
            IN  /\ api_errors' = errs
                /\ outcomes' = Append(outcomes, [kind |-> reply.kind, n |-> reply.n])
                /\ Continue([lists EXCEPT ![target] = Extended(@, data)], errs)
    /\ UNCHANGED <<now, dates, datesCalls>>

Next ==
    \/ Enter
    \/ FetchNetworkError
    \/ FetchHTTPError
    \/ FetchNotJSON
    \/ FetchNonList
    \/ FetchList

Spec == Init /\ [][Next]_vars

\* every await completes (the client has a 10 s timeout) and the event loop
\* resumes the coroutine
FairSpec == Spec /\ WF_vars(Next)

\* get_dates alone, over every day of the reference years
InitDates ==
    /\ now \in AllDays
    /\ pc = "start"
    /\ dates = <<>>
    /\ i = 0
    /\ j = 1
    /\ current_date = <<>>
    /\ flights_by_date = <<>>
    /\ lists = <<>>
    /\ api_errors = <<>>
    /\ sent = <<>>
    /\ outcomes = <<>>
    /\ datesCalls = 0
    /\ status = 0
    /\ respBody = <<>>

NextDates == Enter

SpecDates == InitDates /\ [][NextDates]_vars

(***************************************************************************)
(* Vocabulary of the properties                                            *)
(***************************************************************************)
\* the number a string of decimal digits denotes
RECURSIVE NumValUpTo(_, _)
NumValUpTo(s, k) == IF k = 0 THEN 0 ELSE 10 * NumValUpTo(s, k - 1) + DigitVal(s[k])

NumVal(s) == NumValUpTo(s, Len(s))

AllDigits(s) == \A x \in 1..Len(s) : IsDigit(s[x])

\* DD-MM-YYYY
IsDDMMYYYY(k) ==
    /\ Len(k) = 10
    /\ k[3] = "-" /\ k[6] = "-"
    /\ \A x \in {1, 2, 4, 5, 7, 8, 9, 10} : IsDigit(k[x])

\* the calendar date a DD-MM-YYYY string names
KeyDate(k) == <<NumVal(SubSeq(k, 7, 10)), NumVal(SubSeq(k, 4, 5)), NumVal(SubSeq(k, 1, 2))>>

\* the window of `now`: a triple <<yesterday, today, tomorrow>> of calendar dates
IsWindow(w) == w[2] = now /\ CalNext(w[1]) = now /\ CalNext(now) = w[3]

\* the same of a set of calendar dates
IsWindowSet(ds) ==
    /\ Cardinality(ds) = 3
    /\ now \in ds
    /\ CalNext(now) \in ds
    /\ \E p \in ds : CalNext(p) = now

\* the date-string and movement of the r-th upstream request
SentKey(r) == sent[r].frmday \o <<"-">> \o sent[r].frmmonth \o <<"-">> \o sent[r].frmacty

SentName(r) == IF sent[r].frmmvtCod = "D" THEN "departures" ELSE "arrivals"

\* the sequence of the r-th request's date and movement in the result
SeqOf(r) ==
    IF sent[r].frmmvtCod = "D"
      THEN lists[flights_by_date[SentKey(r)].departures]
      ELSE lists[flights_by_date[SentKey(r)].arrivals]

\* the FetchErrors tagged with the r-th request's date and movement
ErrorsOf(r) ==
    {e \in 1..Len(api_errors) :
        api_errors[e].date = SentKey(r) /\ api_errors[e].movement = SentName(r)}

\* the FlightDetails the x-th record of the answer to the r-th request stands for
ExpectedFlight(r, x) ==
    [destination |-> "TUN",
     time        |-> "14:30",
     company     |-> CompanyCore(x),
     fnumber     |-> FlightNo(sent[r], x),
     comment     |-> CommentOf(x)]

Answered == 1..Len(outcomes)

(***************************************************************************)
(* Properties                                                              *)
(***************************************************************************)
AllNetworkFailures ==
    /\ pc = "done"
    /\ Len(outcomes) = 6
    /\ \A r \in Answered : outcomes[r].kind = "network"

\* C1: if all six upstream fetches of the request fail with network errors,
\* the response is 500 and its error list holds 6 FetchErrors.
C1_AllNetworkFailuresAnswer500 ==
    AllNetworkFailures => (status = 500 /\ Len(respBody.errors) = 6)

\* C2: whatever the six outcomes were, the result mapping has exactly 3 keys,
\* each of the form DD-MM-YYYY, naming yesterday, today and tomorrow; a date
\* whose two fetches both failed is present with empty departures and arrivals.
C2_ThreeKeysPerWindow ==
    pc = "done" =>
        /\ \A k \in DOMAIN flights_by_date : IsDDMMYYYY(k)
        /\ Cardinality(DOMAIN flights_by_date) = 3
        /\ IsWindowSet({KeyDate(k) : k \in DOMAIN flights_by_date})
        /\ \A r \in {1, 3, 5} :
              (outcomes[r].kind # "ok" /\ outcomes[r + 1].kind # "ok") =>
                  /\ SentKey(r) \in DOMAIN flights_by_date
                  /\ lists[flights_by_date[SentKey(r)].departures] = <<>>
                  /\ lists[flights_by_date[SentKey(r)].arrivals] = <<>>

C2_Witness ==
    /\ pc = "done"
    /\ outcomes[3].kind = "network" /\ outcomes[4].kind = "nonlist"
    /\ outcomes[1].kind = "ok" /\ outcomes[1].n > 0
    /\ Cardinality(DOMAIN flights_by_date) = 3

OriginOf(f) ==
    [mvt |-> f.fnumber[1], day |-> SubSeq(f.fnumber, 2, 3), month |-> SubSeq(f.fnumber, 4, 5)]

FromFetch(f, k, m) ==
    OriginOf(f) = [mvt |-> m, day |-> SubSeq(k, 1, 2), month |-> SubSeq(k, 4, 5)]

\* C4: in every reachable state each FlightDetails in the departures of date
\* d came from the departure fetch for d and each one in the arrivals of d
\* from the arrival fetch for d, and no two sequences are the same list.
C4_NoCrossContamination ==
    /\ \A k \in DOMAIN flights_by_date :
          /\ \A x \in 1..Len(lists[flights_by_date[k].departures]) :
                FromFetch(lists[flights_by_date[k].departures][x], k, "D")
          /\ \A x \in 1..Len(lists[flights_by_date[k].arrivals]) :
                FromFetch(lists[flights_by_date[k].arrivals][x], k, "A")
          /\ flights_by_date[k].departures # flights_by_date[k].arrivals
    /\ \A k1, k2 \in DOMAIN flights_by_date :
          k1 # k2 =>
             {flights_by_date[k1].departures, flights_by_date[k1].arrivals}
               \cap {flights_by_date[k2].departures, flights_by_date[k2].arrivals} = {}

C4_Witness ==
    /\ pc = "done"
    /\ \A r \in Answered : outcomes[r].kind = "ok" /\ outcomes[r].n > 0 /\ SeqOf(r) # <<>>

\* C5: when the body of a fetch is valid JSON but not a list, the sequence of
\* that date and movement stays empty, exactly one FetchError with that date
\* and movement and the message "Unexpected response format" is recorded, the
\* remaining pairs are still fetched and the handler ends with a response.
C5_NonListBody ==
    /\ \A r \in Answered :
          outcomes[r].kind = "nonlist" =>
              /\ SentKey(r) \in DOMAIN flights_by_date
              /\ SeqOf(r) = <<>>
              /\ Cardinality(ErrorsOf(r)) = 1
              /\ \A e \in ErrorsOf(r) : api_errors[e].error = "Unexpected response format"
    /\ (pc = "done" /\ \E r \in Answered : outcomes[r].kind = "nonlist") =>
          (Len(sent) = 6 /\ status = 200)

C5_Witness ==
    /\ pc = "done"
    /\ outcomes[2].kind = "nonlist"
    /\ outcomes[3].kind = "ok" /\ outcomes[3].n > 0
    /\ Len(sent) = 6

\* C6: for every reference instant, get_dates returns three distinct calendar
\* dates, the day before, the day itself and the day after, in that order,
\* each as a zero-padded day, a zero-padded month and a 4-digit year.
C6_DateWindow ==
    pc = "await" =>
        /\ Len(dates) = 9
        /\ \A x \in 1..9 : AllDigits(dates[x])
        /\ \A x \in {1, 4, 7} : Len(dates[x]) = 2 /\ Len(dates[x + 1]) = 2 /\ Len(dates[x + 2]) = 4
        /\ LET w == [x \in 1..3 |-> <<NumVal(dates[3 * x]), NumVal(dates[3 * x - 1]),
                                      NumVal(dates[3 * x - 2])>>]
           IN  /\ IsWindow(w)
               /\ Cardinality({w[1], w[2], w[3]}) = 3

C6_Witness ==
    /\ pc = "await"
    /\ now = <<2000, 1, 1>>
    /\ SubSeq(dates, 1, 3) = <<<<"3", "1">>, <<"1", "2">>, <<"1", "9", "9", "9">>>>

\* C7: after a successful fetch whose body is a list of n well-formed records,
\* the sequence of that date and movement holds exactly n FlightDetails in
\* upstream order, the x-th with the x-th record's direction, heure,
\* compagnie without surrounding whitespace, numVol and commentaire.
C7_RecordsMapped ==
    \A r \in Answered :
        outcomes[r].kind = "ok" =>
            /\ SentKey(r) \in DOMAIN flights_by_date
            /\ SeqOf(r) = [x \in 1..outcomes[r].n |-> ExpectedFlight(r, x)]

C7_Witness ==
    /\ pc = "done"
    /\ \E r \in Answered :
          /\ outcomes[r].kind = "ok"
          /\ outcomes[r].n >= 2
          /\ Len(SeqOf(r)) >= 2
          /\ SeqOf(r)[1].company = CompanyCore(1)
          /\ SeqOf(r)[1].comment = Null

\* C8: after the loop the error list holds exactly one FetchError per failed
\* pair, tagged with that pair's date-string and movement name, and none for
\* a successful pair, and every successful pair's sequence holds exactly that
\* pair's records whatever the other outcomes were.
C8_FailuresAreIsolated ==
    pc = "done" =>
        /\ Len(api_errors) = Cardinality({r \in Answered : outcomes[r].kind # "ok"})
        /\ \A r \in Answered :
              /\ SentKey(r) \in DOMAIN flights_by_date
              /\ Cardinality(ErrorsOf(r)) = (IF outcomes[r].kind = "ok" THEN 0 ELSE 1)
              /\ Len(SeqOf(r)) = outcomes[r].n
              /\ \A x \in 1..Len(SeqOf(r)) : SeqOf(r)[x].fnumber = FlightNo(sent[r], x)

C8_Witness ==
    /\ pc = "done"
    /\ {outcomes[r].kind : r \in {1, 3, 4, 5}} = {"network", "http", "unexpected", "nonlist"}
    /\ outcomes[2].kind = "ok" /\ outcomes[2].n > 0
    /\ outcomes[6].kind = "ok" /\ outcomes[6].n > 0
    /\ Len(api_errors) = 4

\* the calendar date and movement code the r-th upstream request asks for
SentPair(r) ==
    <<<<NumVal(sent[r].frmacty), NumVal(sent[r].frmmonth), NumVal(sent[r].frmday)>>,
      sent[r].frmmvtCod>>

\* C9: one request computes the date window once, before any fetch, issues
\* exactly six upstream requests, one per (window date, movement) pair and
\* none retried, and always ends with a response.
C9_SixRequestsThenResponse ==
    /\ [](/\ datesCalls <= 1
          /\ sent # <<>> => datesCalls = 1
          /\ Len(sent) <= 6
          /\ \A r1, r2 \in 1..Len(sent) : r1 < r2 => sent[r1] # sent[r2])
    /\ [](pc = "done" =>
            /\ status # 0
            /\ Len(sent) = 6
            /\ Len(outcomes) = 6
            /\ IsWindowSet({SentPair(r)[1] : r \in 1..6})
            /\ {SentPair(r)[2] : r \in 1..6} = {"D", "A"})
    /\ <>(pc = "done")

C9_Witness ==
    /\ pc = "done"
    /\ status = 200
    /\ Len(sent) = 6
    /\ datesCalls = 1
    /\ \E r \in Answered : outcomes[r].kind = "network"

\* C10: appending a pair's records is all-or-nothing: if converting one record
\* of a list body fails, none of that response's records is appended, exactly
\* one "Unexpected error" FetchError is recorded for the pair, and the
\* remaining pairs are still fetched.
C10_AllOrNothing ==
    /\ \A r \in Answered :
          outcomes[r].kind = "unexpected" =>
              /\ SentKey(r) \in DOMAIN flights_by_date
              /\ SeqOf(r) = <<>>
              /\ Cardinality(ErrorsOf(r)) = 1
              /\ \A e \in ErrorsOf(r) : api_errors[e].error = "Unexpected error"
    /\ (pc = "done" /\ \E r \in Answered : outcomes[r].kind = "unexpected") => Len(sent) = 6

C10_Witness ==
    /\ pc = "done"
    /\ outcomes[1].kind = "unexpected"
    /\ outcomes[2].kind = "ok" /\ outcomes[2].n > 0
    /\ SeqOf(1) = <<>>
    /\ Len(sent) = 6

====
